---- MODULE Spec2Model ----
(***************************************************************************)
(* Model of the arcdps "Player List" addon (src/src/lib.rs): the           *)
(* PlayerVecMap roster store (player_list + name_dict), its hydration from *)
(* the configuration file, the squad_update session adapter and the        *)
(* store mutations made by the draw_window user interface.                 *)
(*                                                                         *)
(* Strings are sequences of one-character strings, so that to_lowercase    *)
(* is computed character by character.  Positions in name_dict are the     *)
(* 0-based usize positions of the Rust code; player_list is a TLA+         *)
(* sequence, so position p is player_list[p + 1].                          *)
(***************************************************************************)
EXTENDS Integers, Sequences, FiniteSets, TLC

\* ------------------------------------------------------------------------
\* Bounds of the model
\* ------------------------------------------------------------------------

\* longest "Players" array read from the configuration file
MaxRecords == 2

\* ------------------------------------------------------------------------
\* Strings
\* ------------------------------------------------------------------------

EMPTY == <<>>

UPPERCASE == <<"A","B","C","D","E","F","G","H","I","J","K","L","M",
               "N","O","P","Q","R","S","T","U","V","W","X","Y","Z">>

LOWERCASE == <<"a","b","c","d","e","f","g","h","i","j","k","l","m",
               "n","o","p","q","r","s","t","u","v","w","x","y","z">>

\* char::to_lowercase on the modelled (ASCII) alphabet
lower_char(c) ==
    IF \E i \in DOMAIN UPPERCASE : UPPERCASE[i] = c
    THEN LOWERCASE[CHOOSE i \in DOMAIN UPPERCASE : UPPERCASE[i] = c]
    ELSE c

\* str::to_lowercase
to_lowercase(s) == [i \in 1..Len(s) |-> lower_char(s[i])]

\* str::starts_with
starts_with(s, prefix) ==
    /\ Len(prefix) <= Len(s)
    /\ \A i \in 1..Len(prefix) : s[i] = prefix[i]

\* the placeholder comment of the manual add: "Comment here"
COMMENT_HERE == <<"C","o","m","m","e","n","t"," ","h","e","r","e">>

\* account names the host can report and the user can type
Names == { EMPTY, <<"A">>, <<"b">> }

\* names found in the records of the configuration file
FileNames == { <<"A">>, <<"b">> }

\* comments the user can type and the configuration file can hold
Comments == { EMPTY, COMMENT_HERE }

\* texts the user can type in the two filter boxes
FilterTexts == { EMPTY, <<"a">>, <<"c">> }

\* ------------------------------------------------------------------------
\* PlayerVecMap: pure operators over pm = [player_list, name_dict, panicked]
\* (panicked: an index, a Vec::remove or an unwrap failed inside the call)
\* ------------------------------------------------------------------------

Player(name, lowercase_name, comment, lowercase_comment, in_squad) ==
    [ name |-> name, lowercase_name |-> lowercase_name,
      comment |-> comment, lowercase_comment |-> lowercase_comment,
      in_squad |-> in_squad ]

PlayerVecMap_new ==
    [ player_list |-> <<>>, name_dict |-> <<>>, panicked |-> FALSE ]

\* HashMap::remove(key): the map without the key
dict_remove(nd, key) == [ k \in (DOMAIN nd) \ {key} |-> nd[k] ]

\* HashMap::insert(key, value)
dict_insert(nd, key, value) ==
    [ k \in (DOMAIN nd) \cup {key} |-> IF k = key THEN value ELSE nd[k] ]

\* Vec::remove(index) for an index inside the vector
vec_remove(list, index) ==
    [ i \in 1..(Len(list) - 1) |-> IF i <= index THEN list[i] ELSE list[i + 1] ]

\* the loop shared by delete_at and delete: positions after index move left
shift_indices(nd, index) ==
    [ k \in DOMAIN nd |-> IF nd[k] > index THEN nd[k] - 1 ELSE nd[k] ]

\* is_deletable with `delete` starting as true
is_deletable_default_true(pm, username) ==
    IF username \in DOMAIN pm.name_dict
    THEN LET idx == pm.name_dict[username] IN
         IF idx < Len(pm.player_list)
         THEN pm.player_list[idx + 1].comment = EMPTY
         ELSE TRUE
    ELSE TRUE

is_deletable(pm, username) ==
    IF username \in DOMAIN pm.name_dict
    THEN LET idx == pm.name_dict[username] IN
         IF idx < Len(pm.player_list)
         THEN pm.player_list[idx + 1].comment = EMPTY
         ELSE FALSE
    ELSE FALSE

\* delete_at without the update of the positions
delete_at_no_shift(pm, index) ==
    IF index >= Len(pm.player_list)
    THEN [ pm EXCEPT !.panicked = TRUE ]
    ELSE [ pm EXCEPT !.player_list = vec_remove(pm.player_list, index) ]

delete_at(pm, index) ==
    IF index >= Len(pm.player_list)
    THEN [ pm EXCEPT !.panicked = TRUE ]
    ELSE [ player_list |-> vec_remove(pm.player_list, index),
           name_dict   |-> shift_indices(pm.name_dict, index),
           panicked    |-> pm.panicked ]

user_left(pm, username) ==
    LET pm1 == IF is_deletable(pm, username)
               THEN IF username \in DOMAIN pm.name_dict
                    THEN delete_at([ pm EXCEPT !.name_dict = dict_remove(pm.name_dict, username) ],
                                   pm.name_dict[username])
                    ELSE [ pm EXCEPT !.panicked = TRUE ]    \* unwrap of None
               ELSE pm
    IN  IF pm1.panicked THEN pm1
        ELSE IF username \in DOMAIN pm1.name_dict
        THEN LET index == pm1.name_dict[username] IN
             IF index >= Len(pm1.player_list)
             THEN [ pm1 EXCEPT !.panicked = TRUE ]
             ELSE [ pm1 EXCEPT !.player_list[index + 1].in_squad = FALSE ]
        ELSE pm1

delete(pm, username) ==
    IF username \in DOMAIN pm.name_dict
    THEN LET index == pm.name_dict[username]
             nd    == dict_remove(pm.name_dict, username)
         IN  IF index >= Len(pm.player_list)
             THEN [ pm EXCEPT !.name_dict = nd, !.panicked = TRUE ]
             ELSE [ player_list |-> vec_remove(pm.player_list, index),
                    name_dict   |-> shift_indices(nd, index),
                    panicked    |-> pm.panicked ]
    ELSE pm

\* first loop of delete_all, from the last entry (i = Len) down to the first:
\* every entry leaves the squad; an entry without comment has its name taken
\* out of name_dict and the position found there pushed on delete_list
RECURSIVE delete_all_collect(_, _, _)
delete_all_collect(pm, i, delete_list) ==
    IF i = 0
    THEN [ pm |-> pm, delete_list |-> delete_list ]
    ELSE LET player == pm.player_list[i]
             pm1    == [ pm EXCEPT !.player_list[i].in_squad = FALSE ]
         IN  IF player.comment = EMPTY /\ player.name \in DOMAIN pm.name_dict
             THEN delete_all_collect(
                      [ pm1 EXCEPT !.name_dict = dict_remove(pm.name_dict, player.name) ],
                      i - 1,
                      Append(delete_list, pm.name_dict[player.name]))
             ELSE delete_all_collect(pm1, i - 1, delete_list)

\* the positions delete_all collects, in the order it collects them
delete_list_of(pm) == delete_all_collect(pm, Len(pm.player_list), <<>>).delete_list

\* second loop of delete_all: delete_at for every collected position, in order
RECURSIVE delete_all_apply(_, _)
delete_all_apply(pm, delete_list) ==
    IF delete_list = <<>> \/ pm.panicked
    THEN pm
    ELSE delete_all_apply(delete_at(pm, Head(delete_list)), Tail(delete_list))

delete_all(pm) ==
    LET c == delete_all_collect(pm, Len(pm.player_list), <<>>)
    IN  delete_all_apply(c.pm, c.delete_list)

\* add_player that gives the comment to an entry it finds
add_player_overwrite(pm, username, comment) ==
    IF username \notin DOMAIN pm.name_dict
    THEN LET new_item_index == Len(pm.player_list) IN
         [ player_list |-> Append(pm.player_list,
                                  Player(username, to_lowercase(username),
                                         comment, EMPTY, FALSE)),
           name_dict   |-> dict_insert(pm.name_dict, username, new_item_index),
           panicked    |-> pm.panicked ]
    ELSE IF pm.name_dict[username] < Len(pm.player_list)
         THEN [ pm EXCEPT !.player_list[pm.name_dict[username] + 1].comment = comment ]
         ELSE pm

add_player(pm, username, comment) ==
    IF username \notin DOMAIN pm.name_dict
    THEN LET new_item_index == Len(pm.player_list) IN
         [ player_list |-> Append(pm.player_list,
                                  Player(username, to_lowercase(username),
                                         comment, EMPTY, FALSE)),
           name_dict   |-> dict_insert(pm.name_dict, username, new_item_index),
           panicked    |-> pm.panicked ]
    ELSE pm

join(pm, username) ==
    LET pm1 == add_player(pm, username, EMPTY) IN
    IF username \in DOMAIN pm1.name_dict
    THEN LET index == pm1.name_dict[username] IN
         IF index >= Len(pm1.player_list)
         THEN [ pm1 EXCEPT !.panicked = TRUE ]
         ELSE [ pm1 EXCEPT !.player_list[index + 1].in_squad = TRUE ]
    ELSE pm1

\* the comment box of row i (0-based) in draw_window: build() reports a
\* change, and only then is lowercase_comment recomputed
edit_comment(pm, i, text) ==
    IF text # pm.player_list[i + 1].comment
    THEN [ pm EXCEPT !.player_list[i + 1].comment = text,
                     !.player_list[i + 1].lowercase_comment = to_lowercase(text) ]
    ELSE pm

\* the three `continue` tests of the table loop in draw_window
row_shown(player, user_filter_str, comment_filter_str, show_all) ==
    /\ ~ (user_filter_str # EMPTY
          /\ ~ starts_with(player.lowercase_name, user_filter_str))
    /\ ~ (comment_filter_str # EMPTY
          /\ ~ starts_with(player.lowercase_comment, comment_filter_str))
    /\ ~ (~ show_all /\ ~ player.in_squad)

\* ------------------------------------------------------------------------
\* The "Players" value of the configuration file
\* ------------------------------------------------------------------------

TomlField(kind, s) == [ kind |-> kind, s |-> s ]

\* a field of a record: a string, another type of value, or no such key
FieldValues(strings) ==
    { TomlField("string", s) : s \in strings }
        \cup { TomlField("other", EMPTY), TomlField("absent", EMPTY) }

\* an element of the array: a table with its name and comment, or another value
RecordValues ==
    [ kind : {"table"}, name : FieldValues(FileNames), comment : FieldValues(Comments) ]
        \cup { [ kind |-> "other", name |-> TomlField("absent", EMPTY),
                 comment |-> TomlField("absent", EMPTY) ] }

RECURSIVE SeqsUpTo(_, _)
SeqsUpTo(S, n) ==
    IF n = 0 THEN { <<>> }
    ELSE LET shorter == SeqsUpTo(S, n - 1) IN
         shorter \cup { Append(q, x) : q \in { r \in shorter : Len(r) = n - 1 }, x \in S }

PlayersValues ==
    { [ kind |-> "array", items |-> items ] : items \in SeqsUpTo(RecordValues, MaxRecords) }
        \cup { [ kind |-> "other", items |-> <<>> ], [ kind |-> "absent", items |-> <<>> ] }

\* the keys of the configuration the model follows: "Players" and "WindowOpen"
NoConfig == [ players |-> [ kind |-> "absent", items |-> <<>> ], window_open |-> "absent" ]

Configs == [ players : PlayersValues, window_open : {"true", "false", "absent"} ]

\* a table is kept when its "name" is a string, whatever its "comment" is
well_formed_name_only(val) ==
    val.kind = "table" /\ val.name.kind = "string"

\* the if let of the filter_map: a table with a string "name" and a string
\* "comment"
well_formed(val) ==
    val.kind = "table" /\ val.name.kind = "string" /\ val.comment.kind = "string"

\* no name is in two well-formed records of the array
distinct_names(cfg_players) ==
    \A i, j \in 1..Len(cfg_players.items) :
        (i # j /\ well_formed(cfg_players.items[i]) /\ well_formed(cfg_players.items[j]))
            => cfg_players.items[i].name.s # cfg_players.items[j].name.s

\* the filter_map over the array
RECURSIVE hydrated_list(_)
hydrated_list(items) ==
    IF items = <<>> THEN <<>>
    ELSE LET val  == Head(items)
             rest == hydrated_list(Tail(items))
         IN  IF well_formed(val)
             THEN <<Player(val.name.s, to_lowercase(val.name.s),
                           val.comment.s, to_lowercase(val.comment.s), FALSE)>> \o rest
             ELSE rest

\* the enumerate loop: player_map.insert(name, i) for i = 0, 1, ...; a later
\* insert of the same name replaces the earlier position
RECURSIVE hydrated_dict(_, _)
hydrated_dict(list, n) ==
    IF n = 0 THEN <<>>
    ELSE dict_insert(hydrated_dict(list, n - 1), list[n].name, n - 1)

init_player_list(cfg_players) ==
    LET items == IF cfg_players.kind = "array" THEN cfg_players.items ELSE <<>>
        list  == hydrated_list(items)
    IN  [ player_list |-> list,
          name_dict   |-> hydrated_dict(list, Len(list)),
          panicked    |-> FALSE ]

\* Player::to_toml without the "comment" key
to_toml_no_comment(player) ==
    [ kind |-> "table",
      name |-> TomlField("string", player.name),
      comment |-> TomlField("absent", EMPTY) ]

\* Player::to_toml: a table with the keys "name" and "comment"
to_toml(player) ==
    [ kind |-> "table",
      name |-> TomlField("string", player.name),
      comment |-> TomlField("string", player.comment) ]

\* the filter_map of release written without its test of the comment
RECURSIVE written_items_unfiltered(_)
written_items_unfiltered(list) ==
    IF list = <<>> THEN <<>>
    ELSE <<to_toml(Head(list))>> \o written_items_unfiltered(Tail(list))

\* the filter_map of release: the entries with a comment, as tables
RECURSIVE written_items(_)
written_items(list) ==
    IF list = <<>> THEN <<>>
    ELSE IF Head(list).comment # EMPTY
         THEN <<to_toml(Head(list))>> \o written_items(Tail(list))
         ELSE written_items(Tail(list))

\* release() writing every entry, with or without a comment
release_config_unfiltered(list, window) ==
    [ players     |-> [ kind |-> "array", items |-> written_items_unfiltered(list) ],
      window_open |-> IF window THEN "true" ELSE "false" ]

\* the "Players" and "WindowOpen" keys of the configuration release() writes
release_config(list, window) ==
    [ players     |-> [ kind |-> "array", items |-> written_items(list) ],
      window_open |-> IF window THEN "true" ELSE "false" ]

\* ------------------------------------------------------------------------
\* Session adapter: the store operation a membership record is routed to
\* ------------------------------------------------------------------------

\* UserRole of the host; None is "removed from group"
Roles == { "SquadLeader", "Lieutenant", "Member", "Invited", "Applied", "None", "Invalid" }

remove_user(pm, self, username) ==
    LET is_self == (username = self) IN
    IF is_self THEN delete_all(pm) ELSE user_left(pm, username)

add_user(pm, self, username) ==
    LET is_self == (username = self) IN
    IF ~ is_self THEN join(pm, username) ELSE pm

\* ------------------------------------------------------------------------
\* State
\* ------------------------------------------------------------------------

VARIABLES
    player_list,          \* STATE.players.player_list
    name_dict,            \* STATE.players.name_dict
    self_name,            \* STATE.self_name
    extras_initialized,   \* STATE.flags.extras_initialized
    display_window,       \* STATE.flags.display_window
    config,               \* the parsed configuration init() reads
    initialized,          \* init() has run
    panicked,             \* a callback panicked
    last_op,              \* the operation of the last step
    mutex,                \* STATE (the Mutex): "free", or the thread holding the guard
    ui_pc,                \* where the thread of the window callbacks is
    ev_pc,                \* where the thread of the extras callbacks is
    opened_window,        \* the local opened_window of draw_window
    action,               \* the local action of draw_window
    window_read           \* what draw_window read in flags.display_window (line 465)

vars == << player_list, name_dict, self_name, extras_initialized,
           display_window, config, initialized, panicked, last_op,
           mutex, ui_pc, ev_pc, opened_window, action, window_read >>

\* what belongs to the two threads of callbacks
thread_vars == << mutex, ui_pc, ev_pc, opened_window, action, window_read >>

\* the extras thread outside remove_user and add_user
EvIdle == [ at |-> "idle", kind |-> "none", name |-> EMPTY, index |-> 0 ]

\* `let mut action = None`
NoAction == [ some |-> FALSE, name |-> EMPTY ]

\* no callback is running
ThreadsIdle ==
    /\ mutex = "free"
    /\ ui_pc = "idle"
    /\ ev_pc = EvIdle
    /\ opened_window = FALSE
    /\ action = NoAction
    /\ window_read = FALSE

\* the store as the operators take it
players == [ player_list |-> player_list, name_dict |-> name_dict, panicked |-> FALSE ]

\* op: the operation; name, comment: its arguments; found: name was a key of
\* name_dict when the operation started (for init: a record of the array was
\* skipped); again: a join that follows a join of the same name, or an init
\* that follows a release
Op(op, name, comment) ==
    [ op |-> op, name |-> name, comment |-> comment,
      found |-> (name \in DOMAIN name_dict),
      again |-> (op = "join" /\ last_op.op = "join" /\ last_op.name = name) ]

\* an operation that looks no name up
OpOnly(op, name) ==
    [ op |-> op, name |-> name, comment |-> EMPTY, found |-> FALSE, again |-> FALSE ]

\* the store after an operation
SetPlayers(pm) ==
    /\ player_list' = pm.player_list
    /\ name_dict' = pm.name_dict
    /\ panicked' = pm.panicked

\* State::new() with init() done and nothing found in the configuration file
InitEmpty ==
    /\ player_list = PlayerVecMap_new.player_list
    /\ name_dict = PlayerVecMap_new.name_dict
    /\ self_name = EMPTY
    /\ extras_initialized = FALSE
    /\ display_window = FALSE
    /\ config = NoConfig
    /\ initialized = TRUE
    /\ panicked = FALSE
    /\ last_op = OpOnly("new", EMPTY)
    /\ ThreadsIdle

\* State::new(), before init() reads the configuration file
Init ==
    /\ player_list = PlayerVecMap_new.player_list
    /\ name_dict = PlayerVecMap_new.name_dict
    /\ self_name = EMPTY
    /\ extras_initialized = FALSE
    /\ display_window = FALSE
    /\ config \in Configs
    /\ initialized = FALSE
    /\ panicked = FALSE
    /\ last_op = OpOnly("new", EMPTY)
    /\ ThreadsIdle

\* ------------------------------------------------------------------------
\* Operations of the store
\* ------------------------------------------------------------------------

Running == initialized /\ ~ panicked

Join(n) ==
    /\ Running
    /\ SetPlayers(join(players, n))
    /\ last_op' = Op("join", n, EMPTY)
    /\ UNCHANGED << self_name, extras_initialized, display_window, config, initialized >>
    /\ UNCHANGED thread_vars

UserLeft(n) ==
    /\ Running
    /\ SetPlayers(user_left(players, n))
    /\ last_op' = Op("user_left", n, EMPTY)
    /\ UNCHANGED << self_name, extras_initialized, display_window, config, initialized >>
    /\ UNCHANGED thread_vars

Delete(n) ==
    /\ Running
    /\ SetPlayers(delete(players, n))
    /\ last_op' = Op("delete", n, EMPTY)
    /\ UNCHANGED << self_name, extras_initialized, display_window, config, initialized >>
    /\ UNCHANGED thread_vars

DeleteAll ==
    /\ Running
    /\ SetPlayers(delete_all(players))
    /\ last_op' = OpOnly("delete_all", EMPTY)
    /\ UNCHANGED << self_name, extras_initialized, display_window, config, initialized >>
    /\ UNCHANGED thread_vars

AddPlayer(n, c) ==
    /\ Running
    /\ SetPlayers(add_player(players, n, c))
    /\ last_op' = Op("add_player", n, c)
    /\ UNCHANGED << self_name, extras_initialized, display_window, config, initialized >>
    /\ UNCHANGED thread_vars

\* a comment typed in the box of row i of the table
EditComment(i, c) ==
    /\ Running
    /\ i < Len(player_list)
    /\ SetPlayers(edit_comment(players, i, c))
    /\ last_op' = Op("edit", player_list[i + 1].name, c)
    /\ UNCHANGED << self_name, extras_initialized, display_window, config, initialized >>
    /\ UNCHANGED thread_vars

\* init(): the store and the window flag are replaced by the configured ones
Hydrate ==
    /\ ~ initialized
    /\ SetPlayers(init_player_list(config.players))
    /\ display_window' = (config.window_open = "true")
    /\ config' = NoConfig
    /\ initialized' = TRUE
    /\ last_op' = [ OpOnly("init", EMPTY) EXCEPT
                        !.again = (last_op.op = "release"),
                        !.found = (Len(player_list') < Len(config.players.items)) ]
    /\ UNCHANGED << self_name, extras_initialized >>
    /\ UNCHANGED thread_vars

\* release() when the addon is unloaded: the configuration file is written,
\* and the next load starts again from State::new() and init(); the model
\* follows the next load when the array written is no longer than MaxRecords
Release ==
    /\ Running
    /\ Len(written_items(player_list)) <= MaxRecords
    /\ config' = release_config(player_list, display_window)
    /\ SetPlayers(PlayerVecMap_new)
    /\ self_name' = EMPTY
    /\ extras_initialized' = FALSE
    /\ display_window' = FALSE
    /\ initialized' = FALSE
    /\ last_op' = OpOnly("release", EMPTY)
    /\ UNCHANGED thread_vars

\* positions a list of the model can have
Positions == 0..(Cardinality(Names) + MaxRecords)

NextStore ==
    \/ \E n \in Names : Join(n)
    \/ \E n \in Names : UserLeft(n)
    \/ \E n \in Names : Delete(n)
    \/ DeleteAll
    \/ \E n \in Names, c \in Comments : AddPlayer(n, c)
    \/ \E i \in Positions, c \in Comments : EditComment(i, c)

\* the store operations from an empty store
SpecStore == InitEmpty /\ [][NextStore]_vars

NextHydrated == Hydrate \/ NextStore

\* State::new(), before init() reads a configuration with any "Players" value
InitHydrated == Init /\ config.window_open = "absent"

\* the store operations on a store hydrated from any configuration
SpecHydrated == InitHydrated /\ [][NextHydrated]_vars

\* State::new(), before init() reads a configuration that names no player twice
InitDistinct == InitHydrated /\ distinct_names(config.players)

\* the store operations on a store hydrated from a configuration that names
\* no player twice (an absent or empty one included)
SpecDistinct == InitDistinct /\ [][NextHydrated]_vars

\* the store operations on a store hydrated from any configuration, with the
\* addon unloaded and loaded again at any time
NextPersist == NextHydrated \/ Release

SpecPersist == InitHydrated /\ [][NextPersist]_vars

\* ------------------------------------------------------------------------
\* Callbacks of the addon
\* ------------------------------------------------------------------------

\* init_extras(_, Some(name))
InitExtras(n) ==
    /\ Running
    /\ extras_initialized' = TRUE
    /\ self_name' = n
    /\ last_op' = OpOnly("init_extras", n)
    /\ UNCHANGED << player_list, name_dict, panicked, display_window, config, initialized >>
    /\ UNCHANGED thread_vars

\* init_extras(_, None)
InitExtrasNone ==
    /\ Running
    /\ last_op' = OpOnly("init_extras_none", EMPTY)
    /\ UNCHANGED << player_list, name_dict, panicked, self_name, extras_initialized,
                    display_window, config, initialized >>
    /\ UNCHANGED thread_vars

\* one record of squad_update, with an account name
SquadUpdate(n, role) ==
    /\ Running
    /\ IF role = "None"
       THEN /\ SetPlayers(remove_user(players, self_name, n))
            /\ last_op' = Op("squad_update_removed", n, EMPTY)
       ELSE /\ SetPlayers(add_user(players, self_name, n))
            /\ last_op' = Op("squad_update_active", n, EMPTY)
    /\ UNCHANGED << self_name, extras_initialized, display_window, config, initialized >>
    /\ UNCHANGED thread_vars

\* one record of squad_update whose account_name() is None
SquadUpdateNoName ==
    /\ Running
    /\ last_op' = OpOnly("no_name", EMPTY)
    /\ UNCHANGED << player_list, name_dict, panicked, self_name, extras_initialized,
                    display_window, config, initialized >>
    /\ UNCHANGED thread_vars

\* draw_window gets past its two early returns and opens the window
WindowDrawn == Running /\ extras_initialized /\ display_window

\* the "Add" button with the text typed in the "Add user" box
UiAdd(add_user_text) ==
    /\ WindowDrawn
    /\ IF add_user_text # EMPTY
       THEN SetPlayers(add_player(players, add_user_text, COMMENT_HERE))
       ELSE SetPlayers(players)
    /\ last_op' = Op(IF add_user_text # EMPTY THEN "add_player" ELSE "add_nothing",
                     add_user_text, COMMENT_HERE)
    /\ UNCHANGED << self_name, extras_initialized, display_window, config, initialized >>
    /\ UNCHANGED thread_vars

\* row i of the table passes the filters typed and the "Show all" box of the frame
RowDrawn(i) ==
    /\ WindowDrawn
    /\ i < Len(player_list)
    /\ \E user_filter_str \in FilterTexts, comment_filter_str \in FilterTexts,
          show_all \in BOOLEAN :
            row_shown(player_list[i + 1], user_filter_str, comment_filter_str, show_all)

\* the comment box of a drawn row
UiEdit(i, c) ==
    /\ RowDrawn(i)
    /\ SetPlayers(edit_comment(players, i, c))
    /\ last_op' = Op("edit", player_list[i + 1].name, c)
    /\ UNCHANGED << self_name, extras_initialized, display_window, config, initialized >>
    /\ UNCHANGED thread_vars

\* the "X" button of a drawn row: Action::DeletePlayer(player.name)
UiDelete(i) ==
    /\ RowDrawn(i)
    /\ SetPlayers(delete(players, player_list[i + 1].name))
    /\ last_op' = Op("delete", player_list[i + 1].name, EMPTY)
    /\ UNCHANGED << self_name, extras_initialized, display_window, config, initialized >>
    /\ UNCHANGED thread_vars

\* the shortcut key (shortcuts) or the "player list" checkbox (options), or the
\* close box of the window
ToggleWindow ==
    /\ Running
    /\ display_window' = ~ display_window
    /\ last_op' = OpOnly("toggle_window", EMPTY)
    /\ UNCHANGED << player_list, name_dict, panicked, self_name, extras_initialized,
                    config, initialized >>
    /\ UNCHANGED thread_vars

Next ==
    \/ Hydrate
    \/ \E n \in Names : InitExtras(n)
    \/ InitExtrasNone
    \/ \E n \in Names, role \in Roles : SquadUpdate(n, role)
    \/ SquadUpdateNoName
    \/ \E text \in Names : UiAdd(text)
    \/ \E i \in Positions, c \in Comments : UiEdit(i, c)
    \/ \E i \in Positions : UiDelete(i)
    \/ ToggleWindow

\* State::new(), before init() reads a configuration that names no player twice
InitSession == Init /\ distinct_names(config.players)

\* the addon: init() when it is loaded, then the callbacks of the host in any
\* order (what a configuration that names a player twice leads to is followed
\* under SpecHydrated)
Spec == InitSession /\ [][Next]_vars

\* a configuration release() can have written: "Players" is an array of
\* tables with a name and a non-empty comment, "WindowOpen" is a boolean
written_by_release(cfg) ==
    /\ cfg.players.kind = "array"
    /\ \A k \in 1..Len(cfg.players.items) :
          /\ well_formed(cfg.players.items[k])
          /\ cfg.players.items[k].comment.s # EMPTY
    /\ cfg.window_open \in {"true", "false"}

\* the addon loaded for the first time, or on a file written by release()
InitRetained == InitEmpty \/ (Init /\ written_by_release(config))

\* the store operations with the comments the window gives and the user
\* types, none of them empty, and the addon unloaded and loaded again
NextRetained ==
    \/ Hydrate
    \/ Release
    \/ \E n \in Names : Join(n)
    \/ \E n \in Names : UserLeft(n)
    \/ \E n \in Names : Delete(n)
    \/ DeleteAll
    \/ \E n \in Names \ {EMPTY} : AddPlayer(n, COMMENT_HERE)
    \/ \E i \in Positions : EditComment(i, COMMENT_HERE)

SpecRetained == InitRetained /\ [][NextRetained]_vars

\* ------------------------------------------------------------------------
\* The callbacks as two threads that share STATE: a get_state() is a step
\* that waits for the mutex, and the guard is given back where the Rust code
\* drops it (end of the block or of the statement, or mem::drop)
\* ------------------------------------------------------------------------

\* what the callbacks read and write in STATE, and the configuration file
data_vars == << player_list, name_dict, self_name, extras_initialized,
                display_window, config, initialized, panicked >>

\* positions of the window thread inside a call that draws (Window::build,
\* begin_table_header, the widgets of the window and of the option panes)
RenderingPositions ==
    { "dw_error_render", "dw_build", "dw_add_render", "dw_table_begin",
      "dw_table_render", "opt_render", "tab_render" }

\* position of the window thread inside std::fs::write
IoPositions == { "rel_write" }

\* the two threads are followed while the store lists at most MaxRecords + 1
\* players: a name that would make it longer is not typed and not reported
Listable(n) == n \in DOMAIN name_dict \/ Len(player_list) <= MaxRecords

\* draw_window, line 451: let state = get_state()
DwEnter ==
    /\ Running
    /\ ui_pc = "idle"
    /\ mutex = "free"
    /\ mutex' = "ui"
    /\ ui_pc' = "dw_entry"
    /\ last_op' = OpOnly("callback", EMPTY)
    /\ UNCHANGED << data_vars, ev_pc, opened_window, action, window_read >>

\* lines 457-460: the error window is built while `state` is alive
DwError ==
    /\ Running
    /\ ui_pc = "dw_entry"
    /\ ~ extras_initialized
    /\ ui_pc' = "dw_error_render"
    /\ last_op' = OpOnly("callback", EMPTY)
    /\ UNCHANGED << data_vars, mutex, ev_pc, opened_window, action, window_read >>

\* line 462: return, `state` goes out of scope
DwErrorReturn ==
    /\ Running
    /\ ui_pc = "dw_error_render"
    /\ mutex' = "free"
    /\ ui_pc' = "idle"
    /\ last_op' = OpOnly("callback", EMPTY)
    /\ UNCHANGED << data_vars, ev_pc, opened_window, action, window_read >>

\* lines 465-468: opened_window is read, the guard is dropped, and the window
\* is built if it is open
DwDrop ==
    /\ Running
    /\ ui_pc = "dw_entry"
    /\ extras_initialized
    /\ opened_window' = display_window
    /\ window_read' = display_window
    /\ mutex' = "free"
    /\ ui_pc' = IF display_window THEN "dw_build" ELSE "dw_writeback"
    /\ action' = NoAction
    /\ last_op' = OpOnly("callback", EMPTY)
    /\ UNCHANGED << data_vars, ev_pc >>

\* line 481: get_state() of the first block of the closure
DwAddLock ==
    /\ Running
    /\ ui_pc = "dw_build"
    /\ mutex = "free"
    /\ mutex' = "ui"
    /\ ui_pc' = "dw_add_render"
    /\ last_op' = OpOnly("callback", EMPTY)
    /\ UNCHANGED << data_vars, ev_pc, opened_window, action, window_read >>

\* lines 483-510: the widgets are drawn with the guard alive; the "Add"
\* button adds the text typed (the empty text: nothing added); end of block
DwAdd(add_user_text) ==
    /\ Running
    /\ ui_pc = "dw_add_render"
    /\ Listable(add_user_text)
    /\ IF add_user_text # EMPTY
       THEN SetPlayers(add_player(players, add_user_text, COMMENT_HERE))
       ELSE SetPlayers(players)
    /\ mutex' = "free"
    /\ ui_pc' = "dw_table_begin"
    /\ last_op' = OpOnly("callback", EMPTY)
    /\ UNCHANGED << self_name, extras_initialized, display_window, config,
                    initialized, ev_pc, opened_window, action, window_read >>

\* lines 512-513: begin_table_header, then get_state()
DwTableLock ==
    /\ Running
    /\ ui_pc = "dw_table_begin"
    /\ mutex = "free"
    /\ mutex' = "ui"
    /\ ui_pc' = "dw_table_render"
    /\ last_op' = OpOnly("callback", EMPTY)
    /\ UNCHANGED << data_vars, ev_pc, opened_window, action, window_read >>

\* row i of the table passes the three filters of the frame
RowPasses(i) ==
    /\ i < Len(player_list)
    /\ \E user_filter_str \in FilterTexts, comment_filter_str \in FilterTexts,
          show_all \in BOOLEAN :
            row_shown(player_list[i + 1], user_filter_str, comment_filter_str, show_all)

\* lines 517-547: the rows are drawn with the guard alive and a comment is
\* typed in the box of row i; end of block
DwTableEdit(i, c) ==
    /\ Running
    /\ ui_pc = "dw_table_render"
    /\ RowPasses(i)
    /\ SetPlayers(edit_comment(players, i, c))
    /\ mutex' = "free"
    /\ ui_pc' = "dw_action"
    /\ last_op' = OpOnly("callback", EMPTY)
    /\ UNCHANGED << self_name, extras_initialized, display_window, config,
                    initialized, ev_pc, opened_window, action, window_read >>

\* lines 528-530: the "X" button of row i sets action; end of block
DwTableDelete(i) ==
    /\ Running
    /\ ui_pc = "dw_table_render"
    /\ RowPasses(i)
    /\ action' = [ some |-> TRUE, name |-> player_list[i + 1].name ]
    /\ mutex' = "free"
    /\ ui_pc' = "dw_action"
    /\ last_op' = OpOnly("callback", EMPTY)
    /\ UNCHANGED << data_vars, ev_pc, opened_window, window_read >>

\* the rows are drawn and nothing is typed or pressed; end of block
DwTableNothing ==
    /\ Running
    /\ ui_pc = "dw_table_render"
    /\ mutex' = "free"
    /\ ui_pc' = "dw_action"
    /\ last_op' = OpOnly("callback", EMPTY)
    /\ UNCHANGED << data_vars, ev_pc, opened_window, action, window_read >>

\* line 551: get_state().players.delete(&username), the guard of the statement;
\* a panic in delete unwinds out of the callback
DwActionDelete ==
    /\ Running
    /\ ui_pc = "dw_action"
    /\ action.some
    /\ mutex = "free"
    /\ SetPlayers(delete(players, action.name))
    /\ action' = NoAction
    /\ ui_pc' = IF delete(players, action.name).panicked THEN "idle" ELSE "dw_writeback"
    /\ last_op' = OpOnly("callback", EMPTY)
    /\ UNCHANGED << self_name, extras_initialized, display_window, config,
                    initialized, mutex, ev_pc, opened_window, window_read >>

\* line 549: action is None
DwNoAction ==
    /\ Running
    /\ ui_pc = "dw_action"
    /\ ~ action.some
    /\ ui_pc' = "dw_writeback"
    /\ last_op' = OpOnly("callback", EMPTY)
    /\ UNCHANGED << data_vars, mutex, ev_pc, opened_window, action, window_read >>

\* line 557: get_state().flags.display_window = opened_window, and the local
\* opened_window ends with the call
DwWriteback ==
    /\ Running
    /\ ui_pc = "dw_writeback"
    /\ mutex = "free"
    /\ display_window' = opened_window
    /\ opened_window' = FALSE
    /\ window_read' = FALSE
    /\ ui_pc' = "idle"
    /\ last_op' = OpOnly("callback", EMPTY)
    /\ UNCHANGED << player_list, name_dict, self_name, extras_initialized, config,
                    initialized, panicked, mutex, ev_pc, action >>

\* options, line 566: the guard of get_state() lives through ui.checkbox
OptLock ==
    /\ Running
    /\ ui_pc = "idle"
    /\ mutex = "free"
    /\ mutex' = "ui"
    /\ ui_pc' = "opt_render"
    /\ last_op' = OpOnly("callback", EMPTY)
    /\ UNCHANGED << data_vars, ev_pc, opened_window, action, window_read >>

\* the checkbox leaves display_window as it is or as the user sets it
OptDone(checked) ==
    /\ Running
    /\ ui_pc = "opt_render"
    /\ display_window' = checked
    /\ mutex' = "free"
    /\ ui_pc' = "idle"
    /\ last_op' = OpOnly("callback", EMPTY)
    /\ UNCHANGED << player_list, name_dict, self_name, extras_initialized, config,
                    initialized, panicked, ev_pc, opened_window, action,
                    window_read >>

\* options_tab, line 573: let mut state = get_state(), alive to the end
TabLock ==
    /\ Running
    /\ ui_pc = "idle"
    /\ mutex = "free"
    /\ mutex' = "ui"
    /\ ui_pc' = "tab_render"
    /\ last_op' = OpOnly("callback", EMPTY)
    /\ UNCHANGED << data_vars, ev_pc, opened_window, action, window_read >>

\* lines 574-605: the widgets of the pane are drawn, then the function ends
TabDone ==
    /\ Running
    /\ ui_pc = "tab_render"
    /\ mutex' = "free"
    /\ ui_pc' = "idle"
    /\ last_op' = OpOnly("callback", EMPTY)
    /\ UNCHANGED << data_vars, ev_pc, opened_window, action, window_read >>

\* release, lines 388-410: let state = get_state(), alive to the end of the
\* function; the configuration is built and std::fs::write is entered
RelLock ==
    /\ Running
    /\ ui_pc = "idle"
    /\ mutex = "free"
    /\ Len(written_items(player_list)) <= MaxRecords
    /\ mutex' = "ui"
    /\ ui_pc' = "rel_write"
    /\ last_op' = OpOnly("callback", EMPTY)
    /\ UNCHANGED << data_vars, ev_pc, opened_window, action, window_read >>

\* the file is written and the addon is unloaded
RelDone ==
    /\ Running
    /\ ui_pc = "rel_write"
    /\ config' = release_config(player_list, display_window)
    /\ SetPlayers(PlayerVecMap_new)
    /\ self_name' = EMPTY
    /\ extras_initialized' = FALSE
    /\ display_window' = FALSE
    /\ initialized' = FALSE
    /\ mutex' = "free"
    /\ ui_pc' = "idle"
    /\ last_op' = OpOnly("release", EMPTY)
    /\ UNCHANGED << ev_pc, opened_window, action, window_read >>

\* init_extras(_, Some(name)): the guard lives for the whole function
EvInitExtras(n) ==
    /\ Running
    /\ ev_pc = EvIdle
    /\ mutex = "free"
    /\ extras_initialized' = TRUE
    /\ self_name' = n
    /\ last_op' = OpOnly("callback", EMPTY)
    /\ UNCHANGED << player_list, name_dict, panicked, display_window, config,
                    initialized, thread_vars >>

\* remove_user or add_user for one record of squad_update: get_state()
EvLock(n, role) ==
    /\ Running
    /\ ev_pc = EvIdle
    /\ mutex = "free"
    /\ role # "None" => Listable(n)
    /\ mutex' = "event"
    /\ ev_pc' = [ at |-> "locked",
                  kind |-> IF role = "None" THEN "removed" ELSE "active",
                  name |-> n, index |-> 0 ]
    /\ last_op' = OpOnly("callback", EMPTY)
    /\ UNCHANGED << data_vars, ui_pc, opened_window, action, window_read >>

\* user_left of an entry without comment, line 68: the key is taken out of
\* name_dict, the entry is still in player_list
EvUserLeftRemovesKey ==
    LET n == ev_pc.name IN
    /\ ev_pc.at = "locked"
    /\ ev_pc.kind = "removed"
    /\ n # self_name
    /\ is_deletable(players, n)

EvRemoveKey ==
    /\ Running
    /\ EvUserLeftRemovesKey
    /\ name_dict' = dict_remove(name_dict, ev_pc.name)
    /\ ev_pc' = [ ev_pc EXCEPT !.at = "key_removed", !.index = name_dict[ev_pc.name] ]
    /\ last_op' = OpOnly("callback", EMPTY)
    /\ UNCHANGED << player_list, self_name, extras_initialized, display_window,
                    config, initialized, panicked, mutex, ui_pc, opened_window, action,
                    window_read >>

\* user_left, lines 69-75: delete_at(index), the second lookup finds no key,
\* and remove_user ends
EvDeleteAt ==
    /\ Running
    /\ ev_pc.at = "key_removed"
    /\ SetPlayers(delete_at(players, ev_pc.index))
    /\ mutex' = "free"
    /\ ev_pc' = EvIdle
    /\ last_op' = OpOnly("callback", EMPTY)
    /\ UNCHANGED << self_name, extras_initialized, display_window, config,
                    initialized, ui_pc, opened_window, action, window_read >>

\* the other paths of remove_user, and add_user, to the end of the function
EvFinish ==
    /\ Running
    /\ ev_pc.at = "locked"
    /\ ~ EvUserLeftRemovesKey
    /\ IF ev_pc.kind = "removed"
       THEN SetPlayers(remove_user(players, self_name, ev_pc.name))
       ELSE SetPlayers(add_user(players, self_name, ev_pc.name))
    /\ mutex' = "free"
    /\ ev_pc' = EvIdle
    /\ last_op' = OpOnly("callback", EMPTY)
    /\ UNCHANGED << self_name, extras_initialized, display_window, config,
                    initialized, ui_pc, opened_window, action, window_read >>

NextThreads ==
    \/ Hydrate
    \/ DwEnter
    \/ DwError
    \/ DwErrorReturn
    \/ DwDrop
    \/ DwAddLock
    \/ \E text \in Names : DwAdd(text)
    \/ DwTableLock
    \/ \E i \in Positions, c \in Comments : DwTableEdit(i, c)
    \/ \E i \in Positions : DwTableDelete(i)
    \/ DwTableNothing
    \/ DwActionDelete
    \/ DwNoAction
    \/ DwWriteback
    \/ OptLock
    \/ \E checked \in BOOLEAN : OptDone(checked)
    \/ TabLock
    \/ TabDone
    \/ RelLock
    \/ RelDone
    \/ \E n \in Names : EvInitExtras(n)
    \/ \E n \in Names, role \in Roles : EvLock(n, role)
    \/ EvRemoveKey
    \/ EvDeleteAt
    \/ EvFinish

\* the addon with its callbacks on two threads, loaded on any list of players
SpecThreads == InitHydrated /\ [][NextThreads]_vars

\* positions of the window thread at a get_state() inside draw_window (at
\* "dw_action" the one of line 551, when a row is to be deleted)
WaitingPositions == { "dw_build", "dw_table_begin", "dw_action", "dw_writeback" }

\* positions of the window thread between a get_state() and the drop of its
\* guard
HoldingPositions ==
    { "dw_entry", "dw_error_render", "dw_add_render", "dw_table_render",
      "opt_render", "tab_render", "rel_write" }

\* a callback that is running goes on running (the host does not suspend a
\* thread for ever), and a get_state() that finds the mutex free again and
\* again obtains it
FairThreads ==
    /\ WF_vars(\/ DwError
               \/ DwErrorReturn
               \/ DwDrop
               \/ \E text \in Names : DwAdd(text)
               \/ \E i \in Positions, c \in Comments : DwTableEdit(i, c)
               \/ \E i \in Positions : DwTableDelete(i)
               \/ DwTableNothing
               \/ DwNoAction
               \/ \E checked \in BOOLEAN : OptDone(checked)
               \/ TabDone
               \/ RelDone)
    /\ WF_vars(EvRemoveKey \/ EvDeleteAt \/ EvFinish)
    /\ SF_vars(DwAddLock)
    /\ SF_vars(DwTableLock)
    /\ SF_vars(DwActionDelete)
    /\ SF_vars(DwWriteback)

\* the two threads under fair scheduling
SpecThreadsFair == SpecThreads /\ FairThreads

\* ------------------------------------------------------------------------
\* The window flag: the close box of the window, and the shortcut key, which
\* the host reports to shortcuts on the thread of the window procedure
\* ------------------------------------------------------------------------

\* line 468: Window::opened(&mut opened_window) clears the local when the
\* close box of the window is clicked; the closure still runs in that frame
DwCloseBox ==
    /\ Running
    /\ ui_pc = "dw_build"
    /\ opened_window
    /\ opened_window' = FALSE
    /\ last_op' = OpOnly("callback", EMPTY)
    /\ UNCHANGED << data_vars, mutex, ui_pc, ev_pc, action, window_read >>

\* shortcuts with the key of shortcut_char pressed: the guard lives for the
\* whole function, which draws nothing, and the flag is inverted
WndShortcut ==
    /\ Running
    /\ mutex = "free"
    /\ display_window' = ~ display_window
    /\ last_op' = OpOnly("shortcut", EMPTY)
    /\ UNCHANGED << player_list, name_dict, self_name, extras_initialized, config,
                    initialized, panicked, thread_vars >>

NextWindow ==
    \/ NextThreads
    \/ DwCloseBox
    \/ WndShortcut

\* the callbacks of the two threads and the shortcut key, with the addon
\* loaded for the first time
SpecWindow == InitEmpty /\ [][NextWindow]_vars

\* the session adapter on a store hydrated from any configuration, together
\* with the store mutations the window makes (manual add, comment edit, delete)
NextAdapter ==
    \/ Hydrate
    \/ \E n \in Names : InitExtras(n)
    \/ InitExtrasNone
    \/ \E n \in Names, role \in Roles : SquadUpdate(n, role)
    \/ SquadUpdateNoName
    \/ \E n \in Names \ {EMPTY} : AddPlayer(n, COMMENT_HERE)
    \/ \E i \in Positions, c \in Comments : EditComment(i, c)
    \/ \E n \in Names : Delete(n)

SpecAdapter == InitHydrated /\ [][NextAdapter]_vars

\* ------------------------------------------------------------------------
\* Properties
\* ------------------------------------------------------------------------

\* the entries of list named n
entries_named(list, n) == { i \in 1..Len(list) : list[i].name = n }

\* every key of nd maps to a position of list holding that name, and every
\* name of list is a key of nd mapping to its position
bijection(list, nd) ==
    /\ \A k \in DOMAIN nd : nd[k] < Len(list) /\ list[nd[k] + 1].name = k
    /\ \A i \in 1..Len(list) :
          list[i].name \in DOMAIN nd /\ nd[list[i].name] = i - 1

\* C1: from an empty store, after any sequence of join, user_left, delete,
\* delete_all, add_player and comment edits, every key of name_dict maps to a
\* position of player_list holding that name and every entry's name is a key
\* mapping to the entry's position (no name occurs twice).
C1_Bijection ==
    /\ bijection(player_list, name_dict)
    /\ \A n \in Names : Cardinality(entries_named(player_list, n)) <= 1

\* C1 witness: an entry was taken out before two others, which moved left
C1_Witness ==
    /\ last_op.op \in {"delete", "user_left", "delete_all"}
    /\ Len(player_list) = 2
    /\ player_list[1].name = <<"A">>
    /\ player_list[2].name = <<"b">>
    /\ name_dict[<<"b">>] = 1

\* C2: the store built by hydration from any persisted "Players" list has the
\* bijection, and keeps it under the store operations.
C2_HydratedBijection ==
    initialized => bijection(player_list, name_dict)

\* the list without the entry at position p (0-based)
without_position(list, p) ==
    [ i \in 1..(Len(list) - 1) |-> IF i <= p THEN list[i] ELSE list[i + 1] ]

\* C3: user_left(n), for a name n of the store, removes the entry of n (the
\* one name_dict leads to) from player_list and name_dict when its comment is
\* empty at the time of the call, so that no entry named n is left, and
\* otherwise keeps it at its place with its comment unchanged and
\* in_squad = false.
C3_UserLeftRetention ==
    [][ \A n \in DOMAIN name_dict :
          last_op' = Op("user_left", n, EMPTY) =>
            LET p == name_dict[n] IN
            /\ p < Len(player_list)
            /\ ~ panicked'
            /\ IF player_list[p + 1].comment = EMPTY
               THEN /\ n \notin DOMAIN name_dict'
                    /\ player_list' = without_position(player_list, p)
                    /\ entries_named(player_list', n) = {}
               ELSE /\ name_dict' = name_dict
                    /\ Len(player_list') = Len(player_list)
                    /\ \A i \in 1..Len(player_list) :
                          IF i = p + 1
                          THEN /\ player_list'[i].name = n
                               /\ player_list'[i].comment = player_list[i].comment
                               /\ player_list'[i].in_squad = FALSE
                          ELSE player_list'[i] = player_list[i]
      ]_vars

\* the entries of list that have a comment
commented(list) == SelectSeq(list, LAMBDA e : e.comment # EMPTY)

\* C4: after delete_all on a store reached by hydration and store operations,
\* no entry is in the squad, no entry without comment is left, and the entries
\* left are exactly the ones that had a comment, in the same order and with
\* the same comments.
C4_Sweep ==
    [][ last_op'.op = "delete_all" =>
          LET kept == commented(player_list) IN
          /\ \A i \in 1..Len(player_list') :
                /\ ~ player_list'[i].in_squad
                /\ player_list'[i].comment # EMPTY
          /\ Len(player_list') = Len(kept)
          /\ \A i \in 1..Len(kept) :
                /\ player_list'[i].name = kept[i].name
                /\ player_list'[i].comment = kept[i].comment
      ]_vars

\* C5: after join(x) the store holds exactly one entry named x, which is in
\* the squad, and a join(x) that follows a join(x) changes nothing.
C5_JoinIdempotent ==
    [][ \A x \in Names :
          (last_op'.op = "join" /\ last_op'.name = x) =>
            /\ ~ panicked'
            /\ Cardinality(entries_named(player_list', x)) = 1
            /\ \A i \in entries_named(player_list', x) : player_list'[i].in_squad
            /\ last_op'.again => (player_list' = player_list /\ name_dict' = name_dict)
      ]_vars

\* C6: delete(n), for a name n of the store, removes the entry of n whatever
\* its comment, so that no entry named n is left, leaves every other entry
\* unchanged and in order, and leaves every other name mapped to its
\* position, one less if it was after n.
C6_DeleteReindex ==
    [][ \A n \in DOMAIN name_dict :
          last_op' = Op("delete", n, EMPTY) =>
            LET p == name_dict[n] IN
            /\ p < Len(player_list)
            /\ ~ panicked'
            /\ player_list' = without_position(player_list, p)
            /\ entries_named(player_list', n) = {}
            /\ DOMAIN name_dict' = (DOMAIN name_dict) \ {n}
            /\ \A k \in DOMAIN name_dict' :
                  name_dict'[k] = IF name_dict[k] > p THEN name_dict[k] - 1
                                  ELSE name_dict[k]
      ]_vars

C7_WitnessAppended ==
    /\ last_op.op = "add_player"
    /\ ~ last_op.found
    /\ Len(player_list) = 3
    /\ player_list[3].name = last_op.name

C9_LowercaseCaches ==
    \A i \in 1..Len(player_list) :
        /\ player_list[i].lowercase_name = to_lowercase(player_list[i].name)
        /\ player_list[i].lowercase_comment = to_lowercase(player_list[i].comment)

\* C10: after squad_update processes a record with a role other than
\* "removed from group" for any name n, the store has an entry n in the squad.
C10_ActiveRecordJoins ==
    (last_op.op = "squad_update_active" /\ ~ panicked) =>
        \E i \in 1..Len(player_list) :
            player_list[i].name = last_op.name /\ player_list[i].in_squad

\* the entries of list not named n, in their order
others(list, n) == SelectSeq(list, LAMBDA e : e.name # n)

\* C11: a "removed from group" record for the established self name runs the
\* sweep (delete_all); a "removed from group" record for another name n runs
\* user_left(n), which changes no entry other than the one named n.
C11_RemovedRouting ==
    [][ \A n \in Names :
          (last_op'.op = "squad_update_removed" /\ last_op'.name = n) =>
            IF n = self_name
            THEN extras_initialized =>
                    /\ player_list' = delete_all(players).player_list
                    /\ name_dict' = delete_all(players).name_dict
                    /\ \A i \in 1..Len(player_list') : ~ player_list'[i].in_squad
            ELSE /\ ~ panicked'
                 /\ player_list' = user_left(players, n).player_list
                 /\ name_dict' = user_left(players, n).name_dict
                 /\ others(player_list', n) = others(player_list, n)
      ]_vars

\* C12: while init_extras has delivered no name (self_name has its initial
\* value), a "removed from group" record for any name n is handled as
\* user_left(n) and never as the sweep: no entry of another name is changed.
C12_UnknownSelfIsPeer ==
    [][ \A n \in Names :
          ( /\ last_op'.op = "squad_update_removed"
            /\ last_op'.name = n
            /\ ~ extras_initialized ) =>
            /\ player_list' = user_left(players, n).player_list
            /\ name_dict' = user_left(players, n).name_dict
            /\ others(player_list', n) = others(player_list, n)
      ]_vars

\* the (name, comment) pairs of a list of entries, in order
pairs(list) == [ i \in 1..Len(list) |-> << list[i].name, list[i].comment >> ]

\* the (name, comment) pairs of an array of tables with two string fields
record_pairs(items) == [ i \in 1..Len(items) |-> << items[i].name.s, items[i].comment.s >> ]

\* the store of the state taken through release_config and init_player_list:
\* tables of two strings are written, for the entries with a comment and in
\* their order, and hydration gives these pairs back
round_trip(list) ==
    LET written == release_config(list, FALSE).players
        kept    == pairs(commented(list))
    IN  /\ written.kind = "array"
        /\ \A i \in 1..Len(written.items) :
              /\ written.items[i].kind = "table"
              /\ written.items[i].name.kind = "string"
              /\ written.items[i].comment.kind = "string"
        /\ record_pairs(written.items) = kept
        /\ pairs(init_player_list(written).player_list) = kept

\* C13: the record list release writes is the (name, comment) pairs of the
\* entries with a comment, in the order of player_list, and hydrating that
\* list gives a store with exactly those pairs in the same order, so that no
\* entry without comment is there after the round trip.  Stated for the store
\* of every state, and for the release and the init that follows it.
C13_RoundTrip ==
    /\ [] round_trip(player_list)
    /\ [][ /\ last_op'.op = "release" =>
                 record_pairs(config'.players.items) = pairs(commented(player_list))
           /\ (last_op.op = "release" /\ last_op'.op = "init") =>
                 /\ pairs(player_list') = record_pairs(config.players.items)
                 /\ \A i \in 1..Len(player_list') : player_list'[i].comment # EMPTY
                 /\ ~ panicked'
         ]_vars

\* C13 witness: a store hydrated from a list of two records that release
\* wrote, with the cache of the comment computed again
C13_Witness ==
    /\ last_op.op = "init"
    /\ last_op.again
    /\ Len(player_list) = 2
    /\ player_list[1].name = <<"b">>
    /\ player_list[2].name = <<"A">>
    /\ player_list[1].comment = COMMENT_HERE
    /\ player_list[1].lowercase_comment = to_lowercase(COMMENT_HERE)

\* no callback panics
\* C14: under any interleaving of the event path with the UI path, the
\* bijection between player_list and name_dict holds in every state in which
\* the state mutex is not held.
C14_BijectionWhenUnlocked ==
    (initialized /\ mutex = "free") => bijection(player_list, name_dict)

\* C15: in every reachable state where a callback is inside a rendering call
\* (draw_window, options, options_tab) or inside the file write of release,
\* that callback does not hold the state mutex.
C15_NoLockWhileRenderingOrIo ==
    ui_pc \in (RenderingPositions \cup IoPositions) => mutex # "ui"

\* C16: for any store reachable by hydration and any sequence of join,
\* user_left, delete, delete_all, add_player and comment edits, no operation
\* fails: no unwrap of an absent key, no position outside player_list.
C16_StoreOperationsTotal ==
    initialized => panicked = FALSE

\* the records of the array that are tables with a string "name" and a string
\* "comment", in the order of the array
kept_records(items) ==
    SelectSeq(items, LAMBDA val : /\ val.kind = "table"
                                  /\ val.name.kind = "string"
                                  /\ val.comment.kind = "string")

\* C17: hydration keeps exactly the well-formed records of the persisted
\* list, in their order and each with in_squad = false, skips every other
\* record without failing, and yields an empty store when "Players" is
\* missing or is not an array.
C17_HydrationKeepsWellFormed ==
    [][ (~ initialized /\ initialized') =>
          /\ ~ panicked'
          /\ IF config.players.kind = "array"
             THEN LET records == kept_records(config.players.items) IN
                  /\ Len(player_list') = Len(records)
                  /\ \A i \in 1..Len(records) :
                        /\ player_list'[i].name = records[i].name.s
                        /\ player_list'[i].comment = records[i].comment.s
                        /\ player_list'[i].in_squad = FALSE
             ELSE player_list' = <<>> /\ DOMAIN name_dict' = {} ]_vars

\* C17 witness: a load has skipped a record of the array and kept another
C17_Witness ==
    /\ last_op.op = "init"
    /\ last_op.found
    /\ ~ panicked
    /\ Len(player_list) = 1
    /\ player_list[1].name = <<"b">>
    /\ player_list[1].comment = COMMENT_HERE
    /\ player_list[1].in_squad = FALSE

\* C18: join(n) on a store that already has an entry n only sets that
\* entry's in_squad to true: its comment and position, every other entry, the
\* order of player_list, and name_dict are unchanged.
C18_JoinPresentFrame ==
    [][ \A n \in Names :
          ( /\ last_op'.op = "join"
            /\ last_op'.name = n
            /\ \E i \in 1..Len(player_list) : player_list[i].name = n ) =>
              /\ ~ panicked'
              /\ name_dict' = name_dict
              /\ Len(player_list') = Len(player_list)
              /\ \A i \in 1..Len(player_list) :
                    player_list'[i] =
                        IF player_list[i].name = n
                        THEN [ player_list[i] EXCEPT !.in_squad = TRUE ]
                        ELSE player_list[i] ]_vars

\* C19: in delete_all the positions collected in delete_list are strictly
\* descending, each delete_at(idx) removes an entry that had an empty comment
\* at the start of the sweep, and no entry with a non-empty comment is removed
\* by the sweep.
C19_SweepDescending ==
    [][ last_op'.op = "delete_all" =>
          LET delete_list == delete_list_of(players) IN
          /\ \A k \in 1..(Len(delete_list) - 1) : delete_list[k] > delete_list[k + 1]
          /\ \A k \in 1..Len(delete_list) :
                /\ delete_list[k] < Len(player_list)
                /\ player_list[delete_list[k] + 1].comment = EMPTY
          /\ ~ panicked'
          /\ pairs(commented(player_list')) = pairs(commented(player_list)) ]_vars

\* C20: from an empty store or a store hydrated from a list written by
\* release, and with no comment edited to the empty string, every entry with
\* in_squad = false has a non-empty comment after any sequence of join,
\* user_left, delete, delete_all and manual add.
C20_AbsentHasComment ==
    (initialized /\ ~ panicked) =>
        \A i \in 1..Len(player_list) :
            player_list[i].in_squad = FALSE => player_list[i].comment # EMPTY

\* C20 witness: a player without comment has left and is no longer listed,
\* while a player with a comment stays listed out of the squad
C20_Witness ==
    /\ last_op.op = "user_left"
    /\ last_op.found
    /\ last_op.name \notin DOMAIN name_dict
    /\ entries_named(player_list, last_op.name) = {}
    /\ \E i \in 1..Len(player_list) :
          player_list[i].in_squad = FALSE /\ player_list[i].comment = COMMENT_HERE
    /\ \E i \in 1..Len(player_list) : player_list[i].in_squad = TRUE

\* C21: no callback locks the state mutex while it holds a guard on it, every
\* callback has released its guards when it returns, and under fair
\* scheduling every get_state() of draw_window eventually obtains the lock
\* (the window thread is never left for ever at one of them).
C21_LockObtained ==
    /\ [](mutex = "ui" <=> ui_pc \in HoldingPositions)
    /\ [](mutex = "event" <=> ev_pc # EvIdle)
    /\ []<>(ui_pc \notin WaitingPositions)

\* C22: a change of the window flag made by another callback between the
\* read of flags.display_window in draw_window and its write-back of
\* opened_window is still in the flag when draw_window returns.
C22_FlagChangeKept ==
    [][ ( /\ ui_pc = "dw_writeback"
          /\ ui_pc' = "idle"
          /\ display_window # window_read ) =>
              display_window' = display_window ]_vars

NoPanic == ~ panicked

====
